---- MODULE Spec2Model ----
(***************************************************************************)
(* PolyGen C++ support library (static/cpp/polygen_support.hpp):           *)
(* BinaryWriter / BinaryReader wire codec and the container index types.   *)
(*                                                                         *)
(* Representation used throughout:                                         *)
(*   - a byte is a number in 0..255;                                       *)
(*   - an unsigned integer of width w bytes is its base-256 numeral, a     *)
(*     tuple of w bytes written most significant digit first, so that      *)
(*     0x0102 (uint16_t 258) is <<1, 2>>;                                  *)
(*   - a signed integer is [neg, mag]: a sign and the numeral of its       *)
(*     absolute value (int16_t -32768 is [neg |-> TRUE, mag |-> <<128,0>>]);*)
(*   - a float/double is [bits |-> numeral of its IEEE-754 pattern];       *)
(*   - std::string and std::vector<uint8_t> are sequences of bytes;        *)
(*   - std::optional<T> is a sequence of at most one T (<<>> is nullopt);  *)
(*   - std::vector<T> is a sequence of T.                                  *)
(***************************************************************************)
EXTENDS Integers, Sequences, FiniteSets, TLC

VARIABLES
    host,       \* byte order of the machine the library is compiled for
    wstream,    \* BinaryWriter::owned_stream_ : bytes held by the ostringstream
    vec,        \* the std::vector<uint8_t> the writer was constructed over (*vec_)
    walive,     \* the BinaryWriter object has not been destroyed yet
    written,    \* history: the write_* calls made so far, with the bytes each appended
    ropen,      \* a BinaryReader has been constructed
    rdata,      \* BinaryReader::owned_stream_ : the bytes of the istringstream
    rpos,       \* get position of stream_
    rok,        \* stream_ is good (neither failbit nor eofbit nor badbit is set)
    nread,      \* number of read_* calls on the reader that returned a value
    res,        \* outcome of the last read_* call on the reader
    index_,     \* UniqueIndex::index_ : the (key, row pointer) entries of the unordered_map
    ulog,       \* history: the (key, value) pairs passed to UniqueIndex::insert since the last clear
    ures,       \* outcome of the last UniqueIndex::get / contains call
    gindex_,    \* GroupIndex::index_ of each of two GroupIndex objects of one type
    empty_,     \* GroupIndex::empty_ : the static vector the objects of one type share
    glog,       \* history: per GroupIndex object, the (key, value) pairs inserted since its last clear
    gres,       \* outcome of the last GroupIndex::get / contains call
    rows_,      \* DataTable::rows_ : the deque's elements in order, each with its address
    uidx,       \* the table's UniqueIndex (by id) : its unordered_map entries
    gidx,       \* the table's GroupIndex (by group key) : its unordered_map
    held,       \* references to stored rows the caller took, with the content seen then
    tlog,       \* history: the rows passed to add_row since the last clear
    tres,       \* outcome of the last call on the table
    ptype,      \* the pack type (an embed with a pack annotation) of the value at hand
    pvalue,     \* the value: its fields in declared order
    packed,     \* the string pack() returned for it, once called
    unpacked,   \* the outcome of unpack() on that string, once called
    tried       \* the last try_unpack() call: the string given and its outcome

vars == <<host, wstream, vec, walive, written, ropen, rdata, rpos, rok, nread, res,
          index_, ulog, ures, gindex_, empty_, glog, gres,
          rows_, uidx, gidx, held, tlog, tres, ptype, pvalue, packed, unpacked, tried>>

writerVars == <<wstream, vec, walive, written>>
readerVars == <<ropen, rdata, rpos, rok, nread, res>>
indexVars == <<index_, ulog, ures>>
groupVars == <<gindex_, empty_, glog, gres>>
tableVars == <<rows_, uidx, gidx, held, tlog, tres>>
packVars == <<ptype, pvalue, packed, unpacked, tried>>

(***************************************************************************)
(* Bounds of the model                                                     *)
(***************************************************************************)
MaxWrites == 1          \* write_* calls made through one writer
MaxLen == 2             \* length of the strings, byte blobs and vectors written
MaxInput == 7           \* length of the truncated encodings a reader is constructed over
MaxFields == 3          \* fields of a record written through one writer
MaxInserts == 3         \* UniqueIndex::insert calls between two clears
MaxGroupInserts == 3    \* GroupIndex::insert calls on the two objects between clears
MaxRows == 3            \* add_row calls on a table between two clears

Byte == 0..255

Min(a, b) == IF a < b THEN a ELSE b

Reverse(s) == [i \in 1..Len(s) |-> s[Len(s) + 1 - i]]

(***************************************************************************)
(* Fixed-width integer arithmetic on numerals                              *)
(***************************************************************************)
\* ~x on a w-byte unsigned
Not(u) == [j \in 1..Len(u) |-> 255 - u[j]]

\* x + 1 modulo 2^(8w)
Inc(u) == [j \in 1..Len(u) |->
             IF \A k \in (j + 1)..Len(u) : u[k] = 255 THEN (u[j] + 1) % 256 ELSE u[j]]

IsZero(u) == \A j \in 1..Len(u) : u[j] = 0

\* (x >> 8*i) on a w-byte unsigned
ShrBytes(u, i) == [j \in 1..Len(u) |-> IF j <= i THEN 0 ELSE u[j - i]]

\* x mod 256
Low8(u) == u[Len(u)]

\* the number a numeral denotes (only used on numerals below 2^24)
RECURSIVE NatOf(_)
NatOf(u) == IF Len(u) = 0 THEN 0 ELSE 256 * NatOf(SubSeq(u, 1, Len(u) - 1)) + u[Len(u)]

\* the w-byte numeral of a small natural number
RECURSIVE NumeralOf(_, _)
NumeralOf(n, w) == IF w = 0 THEN <<>> ELSE Append(NumeralOf(n \div 256, w - 1), n % 256)

\* a uint32_t used as a byte or element count, as a number; every count above
\* `cap` behaves like cap + 1 in the places that use it (cap exceeds the bytes
\* the input holds), which keeps the number small
CountOf(u, cap) ==
    IF \E j \in 1..(Len(u) - 2) : u[j] # 0
    THEN cap + 1
    ELSE Min(NatOf(SubSeq(u, Len(u) - 1, Len(u))), cap + 1)

(***************************************************************************)
(* Language-level conversions the codec relies on                          *)
(***************************************************************************)
\* static_cast<uintN_t>(intN_t): the value modulo 2^N (two's complement image)
to_unsigned(s) == IF s.neg THEN Inc(Not(s.mag)) ELSE s.mag

\* a conversion that forgets the sign: the unsigned value taken as it is
to_signed_no_sign(u) == [neg |-> FALSE, mag |-> u]

\* static_cast<intN_t>(uintN_t): values with the top bit set are negative
to_signed(u) ==
    IF u[1] >= 128 THEN [neg |-> TRUE, mag |-> Inc(Not(u))] ELSE [neg |-> FALSE, mag |-> u]

\* reinterpret_cast<const char*>(&value): the bytes of an integer object in
\* memory, lowest address first; the order depends on the host
ObjRep(u) == IF host = "little" THEN Reverse(u) ELSE u

\* the integer whose object holds the given bytes, lowest address first
FromObjRep(b) == IF host = "little" THEN Reverse(b) ELSE b

\* std::memcpy between a float/double and an unsigned integer of the same size:
\* the destination object receives the source object's bytes
memcpy_to_bits(f) == FromObjRep(ObjRep(f.bits))
memcpy_to_float(u) == [bits |-> FromObjRep(ObjRep(u))]

\* static_cast<int32_t>(E) and static_cast<E>(int32_t) for an enumeration whose
\* underlying type is int
enum_to_i32(e) == e.disc
i32_to_enum(i) == [disc |-> i]

(***************************************************************************)
(* BinaryWriter                                                            *)
(***************************************************************************)
native_to_le(value) == value

\* a write at the start of the stream, over the bytes written before
ostream_write_at_start(s, bytes) == bytes \o SubSeq(s, Len(bytes) + 1, Len(s))

\* std::ostream::write on the string stream: appends the bytes
ostream_write(s, bytes) == s \o bytes

write_u8(s, value) == ostream_write(s, ObjRep(value))
write_u16(s, value) == ostream_write(s, ObjRep(native_to_le(value)))
write_u32(s, value) == ostream_write(s, ObjRep(native_to_le(value)))
write_u64(s, value) == ostream_write(s, ObjRep(native_to_le(value)))

write_i8(s, value) == write_u8(s, to_unsigned(value))
write_i16(s, value) == write_u16(s, to_unsigned(value))
write_i32(s, value) == write_u32(s, to_unsigned(value))
write_i64(s, value) == write_u64(s, to_unsigned(value))

write_f32(s, value) == write_u32(s, memcpy_to_bits(value))
write_f64(s, value) == write_u64(s, memcpy_to_bits(value))

write_bool(s, value) == write_u8(s, IF value THEN <<1>> ELSE <<0>>)

\* static_cast<uint32_t>(container.size())
size_u32(c) == NumeralOf(Len(c), 4)

\* a write_string that ends the payload with a zero byte, as a C string
write_string_terminated(s, value) ==
    ostream_write(ostream_write(write_u32(s, size_u32(value)), value), <<0>>)

write_string(s, value) ==
    LET s1 == write_u32(s, size_u32(value))
    IN  IF Len(value) # 0 THEN ostream_write(s1, value) ELSE s1

write_bytes(s, value) ==
    LET s1 == write_u32(s, size_u32(value))
    IN  IF Len(value) # 0 THEN ostream_write(s1, value) ELSE s1

\* a write_enum that writes the discriminant as a single byte
write_enum_u8(s, value) == write_u8(s, <<Low8(to_unsigned(enum_to_i32(value)))>>)

write_enum(s, value) == write_i32(s, enum_to_i32(value))

\* the write_func handed to write_optional / write_vector by generated code:
\* a lambda calling the writer method of the element kind e
WriteFunc(e, s, v) ==
    CASE e = "u8" -> write_u8(s, v)
      [] e = "u16" -> write_u16(s, v)
      [] e = "u32" -> write_u32(s, v)
      [] e = "u64" -> write_u64(s, v)
      [] e = "i8" -> write_i8(s, v)
      [] e = "i16" -> write_i16(s, v)
      [] e = "i32" -> write_i32(s, v)
      [] e = "i64" -> write_i64(s, v)
      [] e = "f32" -> write_f32(s, v)
      [] e = "f64" -> write_f64(s, v)
      [] e = "bool" -> write_bool(s, v)
      [] e = "string" -> write_string(s, v)
      [] e = "bytes" -> write_bytes(s, v)
      [] e = "enum" -> write_enum(s, v)

\* a write_optional that writes no flag for an absent value
write_optional_no_else(s, value, e) ==
    IF Len(value) # 0 THEN WriteFunc(e, write_u8(s, <<1>>), value[1]) ELSE s

write_optional(s, value, e) ==
    IF Len(value) # 0 THEN WriteFunc(e, write_u8(s, <<1>>), value[1]) ELSE write_u8(s, <<0>>)

write_optional_string(s, value) ==
    IF Len(value) # 0 THEN write_string(write_u8(s, <<1>>), value[1]) ELSE write_u8(s, <<0>>)

RECURSIVE WriteItems(_, _, _)
WriteItems(s, items, e) ==
    IF items = <<>> THEN s ELSE WriteItems(WriteFunc(e, s, Head(items)), Tail(items), e)

write_vector(s, items, e) == WriteItems(write_u32(s, size_u32(items)), items, e)

\* the stream's bytes inserted at the end of the vector
vec_insert_end(v, str) == v \o str

\* vec_->assign(str.begin(), str.end()) in BinaryWriter::flush: the new content
\* of the vector, given its old content v and the stream's content str
vec_assign(v, str) == str

(***************************************************************************)
(* BinaryReader.  A reader state is [data, pos, ok]; every read_* yields    *)
(* [rd, thrown, val]: the reader state after the call, whether the call     *)
(* left by the std::runtime_error of check_read, and the value returned.    *)
(***************************************************************************)
Reader(data, pos, ok) == [data |-> data, pos |-> pos, ok |-> ok]

NoValue == <<>>

Returns(r, v) == [rd |-> r, thrown |-> FALSE, what |-> "-", val |-> v]

\* throw std::runtime_error("Binary read error: unexpected end of stream")
Throws(r) == [rd |-> r, thrown |-> TRUE, what |-> "end of stream", val |-> NoValue]

\* std::bad_alloc (std::length_error where the request exceeds max_size())
\* thrown by the allocation of a container; the stream is left as it was
ThrowsAlloc(r) == [rd |-> r, thrown |-> TRUE, what |-> "bad_alloc", val |-> NoValue]

\* a read that hands out what is there and leaves the stream good when fewer
\* than n bytes remain
istream_read_short_ok(r, n) ==
    LET m == Min(n, Len(r.data) - r.pos)
    IN  [rd |-> Reader(r.data, r.pos + m, r.ok), got |-> SubSeq(r.data, r.pos + 1, r.pos + m)]

\* a read that looks at the bytes left before it extracts any, and keeps no
\* failed state from one call to the next
istream_read_checked(r, n) ==
    IF n <= Len(r.data) - r.pos
    THEN [rd |-> Reader(r.data, r.pos + n, TRUE), got |-> SubSeq(r.data, r.pos + 1, r.pos + n)]
    ELSE [rd |-> Reader(r.data, r.pos, FALSE), got |-> <<>>]

\* std::istream::read(buf, n): on a stream that is not good nothing is
\* extracted (and failbit is set); otherwise the n requested bytes are
\* extracted, or all that remain, and then eofbit|failbit are set
istream_read(r, n) ==
    IF ~r.ok
    THEN [rd |-> r, got |-> <<>>]
    ELSE LET m == Min(n, Len(r.data) - r.pos)
         IN  [rd |-> Reader(r.data, r.pos + m, m = n),
              got |-> SubSeq(r.data, r.pos + 1, r.pos + m)]

\* check_read: throws when the stream is in a failed state
check_read(r) == ~r.ok

le_to_native(value) == value

read_u8(r) ==
    LET x == istream_read(r, 1)
    IN  IF check_read(x.rd) THEN Throws(x.rd) ELSE Returns(x.rd, FromObjRep(x.got))

read_u16(r) ==
    LET x == istream_read(r, 2)
    IN  IF check_read(x.rd) THEN Throws(x.rd) ELSE Returns(x.rd, le_to_native(FromObjRep(x.got)))

read_u32(r) ==
    LET x == istream_read(r, 4)
    IN  IF check_read(x.rd) THEN Throws(x.rd) ELSE Returns(x.rd, le_to_native(FromObjRep(x.got)))

read_u64(r) ==
    LET x == istream_read(r, 8)
    IN  IF check_read(x.rd) THEN Throws(x.rd) ELSE Returns(x.rd, le_to_native(FromObjRep(x.got)))

read_i8(r) ==
    LET x == read_u8(r) IN IF x.thrown THEN x ELSE Returns(x.rd, to_signed(x.val))
read_i16(r) ==
    LET x == read_u16(r) IN IF x.thrown THEN x ELSE Returns(x.rd, to_signed(x.val))
read_i32(r) ==
    LET x == read_u32(r) IN IF x.thrown THEN x ELSE Returns(x.rd, to_signed(x.val))
read_i64(r) ==
    LET x == read_u64(r) IN IF x.thrown THEN x ELSE Returns(x.rd, to_signed(x.val))

\* a read_f32 that takes the eight bytes of a double
read_f32_wide(r) ==
    LET x == read_u64(r) IN IF x.thrown THEN x ELSE Returns(x.rd, memcpy_to_float(x.val))

read_f32(r) ==
    LET x == read_u32(r) IN IF x.thrown THEN x ELSE Returns(x.rd, memcpy_to_float(x.val))
read_f64(r) ==
    LET x == read_u64(r) IN IF x.thrown THEN x ELSE Returns(x.rd, memcpy_to_float(x.val))

\* a read_bool that accepts the canonical byte only
read_bool_one(r) ==
    LET x == read_u8(r) IN IF x.thrown THEN x ELSE Returns(x.rd, x.val = <<1>>)

read_bool(r) ==
    LET x == read_u8(r) IN IF x.thrown THEN x ELSE Returns(x.rd, x.val # <<0>>)

read_string(r) ==
    LET len == read_u32(r)
    IN  IF len.thrown THEN len
        ELSE IF IsZero(len.val) THEN Returns(len.rd, <<>>)
        ELSE LET x == istream_read(len.rd, CountOf(len.val, Len(r.data)))
             IN  IF check_read(x.rd) THEN Throws(x.rd) ELSE Returns(x.rd, x.got)

read_bytes(r) ==
    LET len == read_u32(r)
    IN  IF len.thrown THEN len
        ELSE IF ~IsZero(len.val)
        THEN LET x == istream_read(len.rd, CountOf(len.val, Len(r.data)))
             IN  IF check_read(x.rd) THEN Throws(x.rd) ELSE Returns(x.rd, x.got)
        ELSE Returns(len.rd, <<>>)

read_enum(r) ==
    LET x == read_i32(r) IN IF x.thrown THEN x ELSE Returns(x.rd, i32_to_enum(x.val))

\* the read_func handed to read_optional / read_vector by generated code: a
\* lambda calling the reader method of the element kind e
ReadFunc(e, r) ==
    CASE e = "u8" -> read_u8(r)
      [] e = "u16" -> read_u16(r)
      [] e = "u32" -> read_u32(r)
      [] e = "u64" -> read_u64(r)
      [] e = "i8" -> read_i8(r)
      [] e = "i16" -> read_i16(r)
      [] e = "i32" -> read_i32(r)
      [] e = "i64" -> read_i64(r)
      [] e = "f32" -> read_f32(r)
      [] e = "f64" -> read_f64(r)
      [] e = "bool" -> read_bool(r)
      [] e = "string" -> read_string(r)
      [] e = "bytes" -> read_bytes(r)
      [] e = "enum" -> read_enum(r)

\* a read_optional that takes only the flag byte 1 for a present value
read_optional_strict(r, e) ==
    LET has_value == read_u8(r)
    IN  IF has_value.thrown THEN has_value
        ELSE IF has_value.val # <<1>> THEN Returns(has_value.rd, <<>>)
        ELSE LET x == ReadFunc(e, has_value.rd)
             IN  IF x.thrown THEN x ELSE Returns(x.rd, <<x.val>>)

read_optional(r, e) ==
    LET has_value == read_u8(r)
    IN  IF has_value.thrown THEN has_value
        ELSE IF has_value.val = <<0>> THEN Returns(has_value.rd, <<>>)
        ELSE LET x == ReadFunc(e, has_value.rd)
             IN  IF x.thrown THEN x ELSE Returns(x.rd, <<x.val>>)

read_optional_string(r) ==
    LET has_value == read_u8(r)
    IN  IF has_value.thrown THEN has_value
        ELSE IF has_value.val = <<0>> THEN Returns(has_value.rd, <<>>)
        ELSE LET x == read_string(has_value.rd)
             IN  IF x.thrown THEN x ELSE Returns(x.rd, <<x.val>>)

\* the loop of read_vector: i elements are in result, count is the prefix read
RECURSIVE ReadItems(_, _, _, _, _)
ReadItems(r, e, count, i, result) ==
    IF ~(i < count) THEN Returns(r, result)
    ELSE LET x == ReadFunc(e, r)
         IN  IF x.thrown THEN x ELSE ReadItems(x.rd, e, count, i + 1, Append(result, x.val))

\* sizeof(T) of the element types read into vectors (64-bit libstdc++)
sizeof(e) == IF e = "string" THEN 32 ELSE IF e = "u16" THEN 2 ELSE 4

\* What operator new answers to a request of 4 GiB or more. Smaller requests
\* (the buffer of a string or blob, at most 2^32 - 1 bytes) are taken to be
\* granted.
Memory == {"granted", "refused"}

\* result.reserve(count) fails: count * sizeof(T) is 4 GiB or more (the top
\* byte of count is at least 256 / sizeof(T)) and the request is refused
reserve_fails(count, e, mem) == mem = "refused" /\ count[1] >= 256 \div sizeof(e)

read_vector(r, e, mem) ==
    LET count == read_u32(r)
    IN  IF count.thrown THEN count
        ELSE IF reserve_fails(count.val, e, mem) THEN ThrowsAlloc(count.rd)
        ELSE ReadItems(count.rd, e, CountOf(count.val, Len(r.data)), 0, <<>>)

(***************************************************************************)
(* UniqueIndex<K, V> (and its std::string specialization, whose code is the *)
(* same).  The unordered_map is the set of its <<key, pointer>> entries.    *)
(***************************************************************************)
nullptr == "nullptr"

\* index_.find(key) != index_.end()
Found(idx, key) == \E p \in idx : p[1] = key

\* an insert into a multimap: the entries a key already has stay
UniqueIndex_insert_multi(idx, key, value) == idx \cup {<<key, value>>}

\* an insert that rebuilds the map with the one entry
UniqueIndex_insert_only(idx, key, value) == {<<key, value>>}

\* an insert that keeps the mapping a key already has (what
\* unordered_map::insert / emplace do)
UniqueIndex_insert_keep(idx, key, value) ==
    IF Found(idx, key) THEN idx ELSE idx \cup {<<key, value>>}

\* index_[key] = value: operator[] finds the entry of key or creates it, and
\* the assignment replaces the pointer it holds
UniqueIndex_insert(idx, key, value) ==
    {p \in idx : p[1] # key} \cup {<<key, value>>}

\* a lookup written with unordered_map::at, which throws for a key it does not hold
UniqueIndex_get_at(idx, key) ==
    IF Found(idx, key) THEN (CHOOSE p \in idx : p[1] = key)[2] ELSE "out_of_range"

UniqueIndex_get(idx, key) ==
    IF Found(idx, key) THEN (CHOOSE p \in idx : p[1] = key)[2] ELSE nullptr

\* a contains written over get: true when get returns a pointer
UniqueIndex_contains_get(idx, key) ==
    Found(idx, key) /\ (CHOOSE p \in idx : p[1] = key)[2] # nullptr

UniqueIndex_contains(idx, key) == Found(idx, key)

\* a clear that leaves the entries in place
UniqueIndex_clear_noop(idx) == idx

UniqueIndex_clear(idx) == {}

(***************************************************************************)
(* GroupIndex<K, V> (and its std::string specialization, whose code is the  *)
(* same).  The unordered_map is a function from the keys it holds to their  *)
(* vectors of row pointers.  empty_ is a static member: every operation of   *)
(* every object of the type has access to it, so the operations that change *)
(* the object return it along with index_.                                  *)
(***************************************************************************)
\* an unordered_map with no entry
NoEntries == [k \in {} |-> <<>>]

\* index_[key]: operator[] finds the vector of key or creates an empty one
GroupIndex_at(idx, key) == IF key \in DOMAIN idx THEN idx[key] ELSE <<>>

\* an insert that puts the new pointer in front of the others
GroupIndex_insert_front(idx, emp, key, value) ==
    [index_ |-> [k \in DOMAIN idx \cup {key} |->
                    IF k = key THEN <<value>> \o GroupIndex_at(idx, key) ELSE idx[k]],
     empty_ |-> emp]

\* an insert that replaces the vector of the key (index_[key] = {value})
GroupIndex_insert_assign(idx, emp, key, value) ==
    [index_ |-> [k \in DOMAIN idx \cup {key} |-> IF k = key THEN <<value>> ELSE idx[k]],
     empty_ |-> emp]

\* an insert written over the lookup of get: the pointer is pushed into the
\* vector found for the key, which for a new key is the shared empty_
GroupIndex_insert_shared(idx, emp, key, value) ==
    IF key \in DOMAIN idx
    THEN [index_ |-> [idx EXCEPT ![key] = Append(idx[key], value)], empty_ |-> emp]
    ELSE [index_ |-> idx, empty_ |-> Append(emp, value)]

\* index_[key].push_back(value)
GroupIndex_insert(idx, emp, key, value) ==
    [index_ |-> [k \in DOMAIN idx \cup {key} |->
                    IF k = key THEN Append(GroupIndex_at(idx, key), value) ELSE idx[k]],
     empty_ |-> emp]

\* the vector the returned const reference refers to
GroupIndex_get(idx, emp, key) == IF key \in DOMAIN idx THEN idx[key] ELSE emp

GroupIndex_contains(idx, key) == key \in DOMAIN idx

\* index_.clear()
GroupIndex_clear(idx, emp) == [index_ |-> NoEntries, empty_ |-> emp]

(***************************************************************************)
(* DataTable<T>.  rows_ is the sequence of the deque's elements, each with  *)
(* the address it is stored at: a T& or T* to an element is its address.    *)
(***************************************************************************)
\* the storage a deque places its elements in, slot by slot
Slots == <<"row1", "row2", "row3", "row4", "row5", "row6", "row7", "row8">>

\* the buffers a std::vector would move its elements between
Buffers == <<"buf1", "buf2", "buf3", "buf4", "buf5", "buf6", "buf7", "buf8">>

\* std::deque::push_back: the new element is constructed in the next free slot
\* and no other element is touched
deque_push_back(rows, row) == Append(rows, [addr |-> Slots[Len(rows) + 1], row |-> row])

\* std::vector::push_back at full capacity: the elements are moved to a new
\* buffer and the new element is constructed after them
vector_push_back(rows, row) ==
    LET to == IF rows # <<>> /\ rows[1].addr = Slots[1] THEN Buffers ELSE Slots
    IN  [i \in 1..(Len(rows) + 1) |->
            [addr |-> to[i], row |-> IF i <= Len(rows) THEN rows[i].row ELSE row]]

\* std::deque::push_front
deque_push_front(rows, row) ==
    <<[addr |-> Slots[Len(rows) + 1], row |-> row]>> \o rows

\* an add_row over a std::vector
DataTable_add_row_vector(rows, row) == [rows_ |-> vector_push_back(rows, row), ret |-> "void"]

\* an add_row that puts the row first
DataTable_add_row_front(rows, row) == [rows_ |-> deque_push_front(rows, row), ret |-> "void"]

\* void add_row(T&&) and void add_row(const T&): rows_.push_back
DataTable_add_row(rows, row) == [rows_ |-> deque_push_back(rows, row), ret |-> "void"]

DataTable_count(rows) == Len(rows)

\* operator[](index), for an index below count(): a reference to the element
DataTable_at(rows, index) == rows[index + 1].addr

\* an iteration that starts at the second row
DataTable_iterate_skip(rows) == [i \in 1..(Len(rows) - 1) |-> rows[i + 1]]

\* for (auto& row : table): begin() to end(), the elements in the deque's order
DataTable_iterate(rows) == [i \in 1..Len(rows) |-> rows[i]]

\* rows_.clear()
DataTable_clear(rows) == <<>>

(***************************************************************************)
(* A table of a generated schema container (container.users, ...): one      *)
(* DataTable with one UniqueIndex and one GroupIndex over its rows.  A row   *)
(* is [id, grp]: the column of the unique index and that of the group index. *)
(***************************************************************************)
\* add_row: store the row, then register the stored row's address in each index
Table_add_row(rows, ui, gi, emp, row) ==
    LET r == DataTable_add_row(rows, row)
        ptr == r.rows_[Len(r.rows_)].addr
        g == GroupIndex_insert(gi, emp, row.grp, ptr)
    IN  [rows_ |-> r.rows_, uidx |-> UniqueIndex_insert(ui, row.id, ptr),
         gidx |-> g.index_, empty_ |-> g.empty_]

\* clear: discard the rows and clear every index with them
Table_clear(rows, ui, gi, emp) ==
    LET g == GroupIndex_clear(gi, emp)
    IN  [rows_ |-> DataTable_clear(rows), uidx |-> UniqueIndex_clear(ui),
         gidx |-> g.index_, empty_ |-> g.empty_]

Table_get_by_id(ui, key) == UniqueIndex_get(ui, key)

Table_get_by_grp(gi, emp, key) == GroupIndex_get(gi, emp, key)

(***************************************************************************)
(* Pack codec of the generated embed types (pack / unpack).  A string is a  *)
(* sequence of characters; an integer field holds a number; a float field   *)
(* holds [neg, whole, frac]: a sign, the integral part and the fractional    *)
(* digits without trailing zeros (100.5 is [FALSE, 100, <<5>>]).             *)
(***************************************************************************)
DigitChars == <<"0", "1", "2", "3", "4", "5", "6", "7", "8", "9">>

IsDigit(c) == \E d \in 1..10 : DigitChars[d] = c

DigitOf(c) == (CHOOSE d \in 1..10 : DigitChars[d] = c) - 1

\* the decimal digits of a natural number, most significant first
RECURSIVE Digits(_)
Digits(n) == IF n < 10 THEN <<DigitChars[n + 1]>>
             ELSE Append(Digits(n \div 10), DigitChars[(n % 10) + 1])

\* the number a non-empty string of digits denotes
RECURSIVE NumberOf(_)
NumberOf(s) == IF s = <<>> THEN 0
               ELSE 10 * NumberOf(SubSeq(s, 1, Len(s) - 1)) + DigitOf(s[Len(s)])

\* an integer rendered in a field of fixed width, padded with zeros
render_int_padded(n) ==
    LET d == Digits(IF n < 0 THEN -n ELSE n)
        pad == [i \in 1..(3 - Len(d)) |-> "0"]
    IN  (IF n < 0 THEN <<"-">> ELSE <<>>) \o pad \o d

\* an integer field as text: plain decimal, '-' in front of a negative number
render_int(n) == IF n < 0 THEN <<"-">> \o Digits(-n) ELSE Digits(n)

\* a float field as text: the shortest decimal form, no fraction when it is zero
render_float(f) ==
    (IF f.neg THEN <<"-">> ELSE <<>>) \o Digits(f.whole)
        \o (IF f.frac = <<>> THEN <<>>
            ELSE <<".">> \o [i \in 1..Len(f.frac) |-> DigitChars[f.frac[i] + 1]])

render(kind, v) == IF kind = "f32" THEN render_float(v) ELSE render_int(v)

Parsed(v) == [ok |-> TRUE, val |-> v]
ParseFailure == [ok |-> FALSE, val |-> <<>>]

AllDigits(s) == s # <<>> /\ \A i \in 1..Len(s) : IsDigit(s[i])

\* an integer field parsed from text
parse_int(s) ==
    IF s # <<>> /\ s[1] = "-"
    THEN (IF AllDigits(Tail(s)) THEN Parsed(0 - NumberOf(Tail(s))) ELSE ParseFailure)
    ELSE (IF AllDigits(s) THEN Parsed(NumberOf(s)) ELSE ParseFailure)

\* the fractional digits without their trailing zeros
RECURSIVE StripZeros(_)
StripZeros(d) == IF d # <<>> /\ d[Len(d)] = 0 THEN StripZeros(SubSeq(d, 1, Len(d) - 1)) ELSE d

\* a float field parsed from text: digits, optionally '.' and more digits
parse_float(s) ==
    LET neg == s # <<>> /\ s[1] = "-"
        body == IF neg THEN Tail(s) ELSE s
        dots == {i \in 1..Len(body) : body[i] = "."}
        dot == IF dots = {} THEN Len(body) + 1 ELSE CHOOSE i \in dots : \A j \in dots : i <= j
        whole == SubSeq(body, 1, dot - 1)
        frac == SubSeq(body, dot + 1, Len(body))
    IN  IF AllDigits(whole) /\ (\A i \in 1..Len(frac) : IsDigit(frac[i]))
        THEN Parsed([neg |-> neg, whole |-> NumberOf(whole),
                     frac |-> StripZeros([i \in 1..Len(frac) |-> DigitOf(frac[i])])])
        ELSE ParseFailure

parse(kind, s) == IF kind = "f32" THEN parse_float(s) ELSE parse_int(s)

\* the parts of a string between the occurrences of the delimiter
RECURSIVE split(_, _)
split(s, delim) ==
    LET at == {i \in 1..Len(s) : s[i] = delim}
    IN  IF at = {} THEN <<s>>
        ELSE LET i == CHOOSE i \in at : \A j \in at : i <= j
             IN  <<SubSeq(s, 1, i - 1)>> \o split(SubSeq(s, i + 1, Len(s)), delim)

\* the parts joined with the delimiter between them
RECURSIVE join(_, _)
join(parts, delim) ==
    IF Len(parts) = 0 THEN <<>>
    ELSE IF Len(parts) = 1 THEN parts[1]
    ELSE parts[1] \o <<delim>> \o join(Tail(parts), delim)

\* a pack that ends every field with the delimiter, the last one too
pack_terminated(type, value) ==
    join([i \in 1..Len(type.fields) |-> render(type.fields[i], value[i])], type.delim)
        \o <<type.delim>>

\* value.pack()
pack(type, value) ==
    join([i \in 1..Len(type.fields) |-> render(type.fields[i], value[i])], type.delim)

\* Type::unpack(str): a failure is signalled when the part count is not the
\* field count or a part does not parse
unpack(type, str) ==
    LET parts == split(str, type.delim)
    IN  IF Len(parts) # Len(type.fields) THEN ParseFailure
        ELSE LET fields == [i \in 1..Len(parts) |-> parse(type.fields[i], parts[i])]
             IN  IF \A i \in 1..Len(parts) : fields[i].ok
                 THEN Parsed([i \in 1..Len(parts) |-> fields[i].val])
                 ELSE ParseFailure

(***************************************************************************)
(* Kinds and the values the calls are made with                            *)
(***************************************************************************)
Prim(t) == [t |-> t, e |-> "-"]
Optional(e) == [t |-> "optional", e |-> e]
Vector(e) == [t |-> "vector", e |-> e]

Pos(mag) == [neg |-> FALSE, mag |-> mag]
Neg(mag) == [neg |-> TRUE, mag |-> mag]

U8Values == {<<0>>, <<200>>, <<255>>}
U16Values == {<<0, 0>>, <<195, 80>>, <<255, 255>>}
U32Values == {<<0, 0, 0, 1>>, <<178, 208, 94, 0>>, <<255, 255, 255, 255>>}
U64Values == {<<0, 0, 0, 0, 0, 0, 0, 0>>, <<1, 2, 3, 4, 5, 6, 7, 8>>,
              <<255, 255, 255, 255, 255, 255, 255, 255>>}
I8Values == {Neg(<<128>>), Neg(<<100>>), Pos(<<127>>)}
I16Values == {Neg(<<128, 0>>), Neg(<<0, 1>>), Pos(<<127, 255>>)}
I32Values == {Neg(<<128, 0, 0, 0>>), Neg(<<0, 0, 3, 231>>), Pos(<<127, 255, 255, 255>>)}
I64Values == {Neg(<<128, 0, 0, 0, 0, 0, 0, 0>>), Neg(<<0, 0, 0, 0, 0, 0, 1, 0>>),
              Pos(<<127, 255, 255, 255, 255, 255, 255, 255>>)}
\* 1.5f, a NaN with a payload, and -0.0f
F32Values == {[bits |-> <<63, 192, 0, 0>>], [bits |-> <<127, 192, 0, 1>>],
              [bits |-> <<128, 0, 0, 0>>]}
\* 2.5 and the largest finite double
F64Values == {[bits |-> <<64, 4, 0, 0, 0, 0, 0, 0>>],
              [bits |-> <<127, 239, 255, 255, 255, 255, 255, 255>>]}
EnumValues == {[disc |-> Pos(<<0, 0, 0, 0>>)], [disc |-> Pos(<<0, 0, 0, 2>>)],
               [disc |-> Neg(<<0, 0, 0, 1>>)]}

\* payload bytes: a zero byte, a byte no UTF-8 text contains, a letter, ...
PayloadByte(i) == <<0, 255, 65, 128>>[((i - 1) % 4) + 1]
Payload(n) == [i \in 1..n |-> PayloadByte(i)]
StringValues == {Payload(n) : n \in 0..MaxLen}
BytesValues == {Payload(n) : n \in 0..MaxLen}

OptU32Values == {<<>>} \cup {<<v>> : v \in U32Values}
OptStringValues == {<<>>} \cup {<<v>> : v \in {Payload(0), Payload(1)}}
VecU16Values == {[i \in 1..n |-> <<i, 255 - i>>] : n \in 0..MaxLen}
VecStringValues == {[i \in 1..n |-> Payload(i - 1)] : n \in 0..MaxLen}

(***************************************************************************)
(* Initial states                                                          *)
(***************************************************************************)
NoRes == [k |-> Prim("-"), thrown |-> FALSE, what |-> "-", val |-> NoValue, pos0 |-> 0]

NoWriter == wstream = <<>> /\ vec = <<>> /\ walive = FALSE /\ written = <<>>
NoReader == ropen = FALSE /\ rdata = <<>> /\ rpos = 0 /\ rok = TRUE /\ nread = 0 /\ res = NoRes
NoLookup == [op |-> "-", key |-> 0, val |-> "-"]
NoIndex == index_ = {} /\ ulog = <<>> /\ ures = NoLookup

\* the two GroupIndex objects of one type the model follows
Objects == {1, 2}

NoGroupLookup == [obj |-> 0, op |-> "-", key |-> 0, val |-> "-"]
NoGroup ==
    /\ gindex_ = [g \in Objects |-> NoEntries]
    /\ empty_ = <<>>
    /\ glog = [g \in Objects |-> <<>>]
    /\ gres = NoGroupLookup

NoPack ==
    /\ ptype = [name |-> "-"]
    /\ pvalue = <<>>
    /\ packed = <<>>
    /\ unpacked = <<>>
    /\ tried = <<>>

NoCall == [op |-> "-", val |-> "-"]
NoTable ==
    /\ rows_ = <<>>
    /\ uidx = {}
    /\ gidx = NoEntries
    /\ held = {}
    /\ tlog = <<>>
    /\ tres = NoCall

\* a BinaryWriter just constructed over a vector the caller owns
InitWriter ==
    /\ host \in {"little", "big"}
    /\ wstream = <<>>
    /\ vec \in {<<>>, <<171>>}
    /\ walive = TRUE
    /\ written = <<>>
    /\ NoReader
    /\ NoIndex
    /\ NoGroup
    /\ NoTable
    /\ NoPack

\* the encodings of the values above, one value each
Encodings ==
    {write_u8(<<>>, v) : v \in U8Values} \cup {write_u16(<<>>, v) : v \in U16Values}
    \cup {write_u32(<<>>, v) : v \in U32Values} \cup {write_u64(<<>>, v) : v \in U64Values}
    \cup {write_i8(<<>>, v) : v \in I8Values} \cup {write_i16(<<>>, v) : v \in I16Values}
    \cup {write_i32(<<>>, v) : v \in I32Values} \cup {write_i64(<<>>, v) : v \in I64Values}
    \cup {write_f32(<<>>, v) : v \in F32Values} \cup {write_f64(<<>>, v) : v \in F64Values}
    \cup {write_string(<<>>, v) : v \in StringValues}
    \cup {write_optional(<<>>, v, "u32") : v \in OptU32Values}
    \cup {write_optional_string(<<>>, v) : v \in OptStringValues}
    \cup {write_vector(<<>>, v, "u16") : v \in VecU16Values}
    \cup {write_vector(<<>>, v, "string") : v \in VecStringValues}

\* the byte vectors handed to BinaryReader by a caller that did not produce
\* them with a writer in this run: every single byte, and every truncation of
\* an encoding (a file cut short, a message received in part)
Inputs ==
    {<<b>> : b \in Byte} \cup
        {SubSeq(e, 1, Min(n, Len(e))) : e \in Encodings, n \in 0..MaxInput}

\* a BinaryReader just constructed over such a vector
InitReader ==
    /\ host \in {"little", "big"}
    /\ NoWriter
    /\ ropen = TRUE
    /\ rdata \in Inputs
    /\ rpos = 0
    /\ rok = TRUE
    /\ nread = 0
    /\ res = NoRes
    /\ NoIndex
    /\ NoGroup
    /\ NoTable
    /\ NoPack

Init == InitWriter \/ InitReader

(***************************************************************************)
(* BinaryWriter calls                                                      *)
(***************************************************************************)
\* a write_* call of kind k with value v that leaves s in the stream
DoWrite(k, v, s) ==
    /\ walive
    /\ Len(written) < MaxWrites
    /\ wstream' = s
    /\ written' = Append(written, [k |-> k, v |-> v, off |-> Len(wstream), end |-> Len(s)])
    /\ UNCHANGED <<host, packVars, vec, walive, readerVars, indexVars, groupVars, tableVars>>

Write_u8 == \E v \in U8Values : DoWrite(Prim("u8"), v, write_u8(wstream, v))
Write_u16 == \E v \in U16Values : DoWrite(Prim("u16"), v, write_u16(wstream, v))
Write_u32 == \E v \in U32Values : DoWrite(Prim("u32"), v, write_u32(wstream, v))
Write_u64 == \E v \in U64Values : DoWrite(Prim("u64"), v, write_u64(wstream, v))
Write_i8 == \E v \in I8Values : DoWrite(Prim("i8"), v, write_i8(wstream, v))
Write_i16 == \E v \in I16Values : DoWrite(Prim("i16"), v, write_i16(wstream, v))
Write_i32 == \E v \in I32Values : DoWrite(Prim("i32"), v, write_i32(wstream, v))
Write_i64 == \E v \in I64Values : DoWrite(Prim("i64"), v, write_i64(wstream, v))
Write_f32 == \E v \in F32Values : DoWrite(Prim("f32"), v, write_f32(wstream, v))
Write_f64 == \E v \in F64Values : DoWrite(Prim("f64"), v, write_f64(wstream, v))
Write_bool == \E v \in BOOLEAN : DoWrite(Prim("bool"), v, write_bool(wstream, v))
Write_string == \E v \in StringValues : DoWrite(Prim("string"), v, write_string(wstream, v))
Write_bytes == \E v \in BytesValues : DoWrite(Prim("bytes"), v, write_bytes(wstream, v))
Write_enum == \E v \in EnumValues : DoWrite(Prim("enum"), v, write_enum(wstream, v))
Write_optional ==
    \E v \in OptU32Values : DoWrite(Optional("u32"), v, write_optional(wstream, v, "u32"))
Write_optional_string ==
    \E v \in OptStringValues :
        DoWrite(Prim("optional_string"), v, write_optional_string(wstream, v))
Write_vector ==
    \/ \E v \in VecU16Values : DoWrite(Vector("u16"), v, write_vector(wstream, v, "u16"))
    \/ \E v \in VecStringValues :
           DoWrite(Vector("string"), v, write_vector(wstream, v, "string"))

\* BinaryWriter::flush (vec_ and owned_stream_ are both set by this constructor)
Flush ==
    /\ walive
    /\ vec' = vec_assign(vec, wstream)
    /\ UNCHANGED <<host, packVars, wstream, walive, written, readerVars, indexVars, groupVars, tableVars>>

\* BinaryWriter::~BinaryWriter
Destroy ==
    /\ walive
    /\ vec' = vec_assign(vec, wstream)
    /\ walive' = FALSE
    /\ UNCHANGED <<host, packVars, wstream, written, readerVars, indexVars, groupVars, tableVars>>

(***************************************************************************)
(* BinaryReader calls                                                      *)
(***************************************************************************)
\* BinaryReader(const std::vector<uint8_t>&) over the vector the writer filled.
\* As in every caller, the writer's block has ended before the reader is made,
\* and one reader is made.
NewReader ==
    /\ ~walive
    /\ ~ropen
    /\ ropen' = TRUE
    /\ rdata' = vec
    /\ rpos' = 0
    /\ rok' = TRUE
    /\ UNCHANGED <<host, packVars, writerVars, nread, res, indexVars, groupVars, tableVars>>

\* Generated read_T code reads the fields in the order write_T wrote them: while
\* written fields are left, the next read is of the next field's kind.
Agreed(k) == nread < Len(written) => written[nread + 1].k = k

\* a read_* call of kind k whose outcome is x
DoRead(k, x) ==
    /\ ropen
    /\ Agreed(k)
    /\ rpos' = x.rd.pos
    /\ rok' = x.rd.ok
    /\ nread' = IF x.thrown THEN nread ELSE nread + 1
    /\ res' = [k |-> k, thrown |-> x.thrown, what |-> x.what, val |-> x.val, pos0 |-> rpos]
    /\ UNCHANGED <<host, packVars, writerVars, ropen, rdata, indexVars, groupVars, tableVars>>

Rd == Reader(rdata, rpos, rok)

Read_u8 == DoRead(Prim("u8"), read_u8(Rd))
Read_u16 == DoRead(Prim("u16"), read_u16(Rd))
Read_u32 == DoRead(Prim("u32"), read_u32(Rd))
Read_u64 == DoRead(Prim("u64"), read_u64(Rd))
Read_i8 == DoRead(Prim("i8"), read_i8(Rd))
Read_i16 == DoRead(Prim("i16"), read_i16(Rd))
Read_i32 == DoRead(Prim("i32"), read_i32(Rd))
Read_i64 == DoRead(Prim("i64"), read_i64(Rd))
Read_f32 == DoRead(Prim("f32"), read_f32(Rd))
Read_f64 == DoRead(Prim("f64"), read_f64(Rd))
Read_bool == DoRead(Prim("bool"), read_bool(Rd))
Read_string == DoRead(Prim("string"), read_string(Rd))
Read_bytes == DoRead(Prim("bytes"), read_bytes(Rd))
Read_enum == DoRead(Prim("enum"), read_enum(Rd))
Read_optional == DoRead(Optional("u32"), read_optional(Rd, "u32"))
Read_optional_string == DoRead(Prim("optional_string"), read_optional_string(Rd))
Read_vector ==
    \/ \E mem \in Memory : DoRead(Vector("u16"), read_vector(Rd, "u16", mem))
    \/ \E mem \in Memory : DoRead(Vector("string"), read_vector(Rd, "string", mem))

Writes ==
    \/ Write_u8 \/ Write_u16 \/ Write_u32 \/ Write_u64
    \/ Write_i8 \/ Write_i16 \/ Write_i32 \/ Write_i64
    \/ Write_f32 \/ Write_f64 \/ Write_bool \/ Write_string \/ Write_bytes
    \/ Write_enum \/ Write_optional \/ Write_optional_string \/ Write_vector

Reads ==
    \/ Read_u8 \/ Read_u16 \/ Read_u32 \/ Read_u64
    \/ Read_i8 \/ Read_i16 \/ Read_i32 \/ Read_i64
    \/ Read_f32 \/ Read_f64 \/ Read_bool \/ Read_string \/ Read_bytes
    \/ Read_enum \/ Read_optional \/ Read_optional_string \/ Read_vector

Next == Writes \/ Flush \/ Destroy \/ NewReader \/ Reads

\* write, flush and read back what was written; or read what a caller supplies
Spec == Init /\ [][Next]_vars

(***************************************************************************)
(* A record written field by field and read back                           *)
(***************************************************************************)
\* the fields a generated write_T writes one after the other: fixed-width
\* values of width 1, 2 and 8, strings (one empty), optionals (absent and
\* present) and a vector of strings
Fields ==
    {[k |-> Prim("u8"), v |-> <<200>>],
     [k |-> Prim("i16"), v |-> Neg(<<128, 0>>)],
     [k |-> Prim("f64"), v |-> [bits |-> <<64, 4, 0, 0, 0, 0, 0, 0>>]],
     [k |-> Prim("string"), v |-> Payload(0)],
     [k |-> Prim("string"), v |-> Payload(2)],
     [k |-> Optional("u32"), v |-> <<>>],
     [k |-> Optional("u32"), v |-> << <<255, 255, 255, 255>> >>],
     [k |-> Vector("string"), v |-> <<Payload(0), Payload(1)>>]}

\* the write_* call for a field of kind k
WriteField(k, s, v) ==
    CASE k.t = "optional" -> write_optional(s, v, k.e)
      [] k.t = "vector" -> write_vector(s, v, k.e)
      [] OTHER -> WriteFunc(k.t, s, v)

\* the read_* call for a field of kind k
ReadField(k, r, mem) ==
    CASE k.t = "optional" -> read_optional(r, k.e)
      [] k.t = "vector" -> read_vector(r, k.e, mem)
      [] OTHER -> ReadFunc(k.t, r)

\* the next field is written
WriteNext ==
    /\ walive
    /\ Len(written) < MaxFields
    /\ \E f \in Fields :
          /\ wstream' = WriteField(f.k, wstream, f.v)
          /\ written' = Append(written, [k |-> f.k, v |-> f.v, off |-> Len(wstream),
                                         end |-> Len(WriteField(f.k, wstream, f.v))])
    /\ UNCHANGED <<host, packVars, vec, walive, readerVars, indexVars, groupVars, tableVars>>

\* the next field is read; past the last field, a field of any kind
ReadNext == \E f \in Fields, mem \in Memory : DoRead(f.k, ReadField(f.k, Rd, mem))

NextRecord == WriteNext \/ Flush \/ Destroy \/ NewReader \/ ReadNext

\* a record of up to MaxFields fields written through one writer, then read
SpecRecord == InitWriter /\ [][NextRecord]_vars

(***************************************************************************)
(* Properties                                                              *)
(***************************************************************************)
\* the bytes the i-th write_* call appended
Appended(i) == SubSeq(wstream, written[i].off + 1, written[i].end)

\* the last read_* call returned, and it read back the nread-th written field
ReadBack == ropen /\ ~res.thrown /\ nread \in 1..Len(written)

\* the last read_* call threw while reading back a written field
FailedField == ropen /\ res.thrown /\ nread < Len(written)

IntKinds == {"u8", "u16", "u32", "u64", "i8", "i16", "i32", "i64"}

\* C1: for every integer kind K and every value v of K, the minimum and the
\* maximum of K included, read_K applied to the bytes write_K(v) produced
\* returns exactly v (and does not fail).
C1_IntRoundTrip ==
    /\ (ReadBack /\ res.k.t \in IntKinds) =>
           /\ res.val = written[nread].v
           /\ res.pos0 = written[nread].off
           /\ rpos = written[nread].end
    /\ FailedField => written[nread + 1].k.t \notin IntKinds

\* int64_t min has been written and read back
C1_Witness ==
    ReadBack /\ res.k = Prim("i64") /\ res.val = Neg(<<128, 0, 0, 0, 0, 0, 0, 0>>)

Width(t) ==
    CASE t \in {"u8", "i8", "bool"} -> 1
      [] t \in {"u16", "i16"} -> 2
      [] t \in {"u32", "i32", "f32"} -> 4
      [] t \in {"u64", "i64", "f64"} -> 8

\* the w bytes of the number n, least significant first
LittleEndian(n, w) == [j \in 1..w |-> (n \div (256 ^ (j - 1))) % 256]

\* C2: write_u16 / write_u32 / write_u64 append exactly 2 / 4 / 8 bytes in
\* little-endian order, the i-th appended byte (from 0) being (v >> 8*i) mod 256;
\* the signed writers append the bytes of the two's-complement image.
C2_LittleEndian ==
    \A i \in 1..Len(written) :
        written[i].k.t \in {"u16", "u32", "u64", "i16", "i32", "i64"} =>
            LET t == written[i].k.t
                u == IF t \in {"i16", "i32", "i64"} THEN to_unsigned(written[i].v)
                     ELSE written[i].v
            IN  /\ Len(Appended(i)) = Width(t)
                /\ \A j \in 0..(Width(t) - 1) : Appended(i)[j + 1] = Low8(ShrBytes(u, j))

FixedKinds == {"u8", "u16", "u32", "u64", "i8", "i16", "i32", "i64", "f32", "f64", "bool"}

\* the bytes left in the input when the last read_* call was made
Remaining0 == Len(rdata) - res.pos0

\* the length prefix the last read_string / read_bytes call found, as a number
\* (any length above the size of the input counts as that size plus one)
Declared0 == CountOf(FromObjRep(SubSeq(rdata, res.pos0 + 1, res.pos0 + 4)), Len(rdata))

C4_StringLayout ==
    /\ \A i \in 1..Len(written) :
           written[i].k.t \in {"string", "bytes"} =>
               Appended(i) = LittleEndian(Len(written[i].v), 4) \o written[i].v
    /\ (ReadBack /\ res.k.t \in {"string", "bytes"}) =>
           res.val = written[nread].v /\ rpos = written[nread].end
    /\ FailedField => written[nread + 1].k.t \notin {"string", "bytes"}

OptionalKinds == {Optional("u32"), Prim("optional_string")}

\* the encoding of the value an optional of kind k holds
InnerEncoding(k, v) ==
    IF k = Optional("u32") THEN write_u32(<<>>, v) ELSE write_string(<<>>, v)

\* C5: an absent optional encodes to exactly one byte 0 and decodes to absent;
\* a present optional encodes to the byte 1 followed by the inner value's
\* encoding and decodes to a present optional holding an equal value.
C5_Optional ==
    /\ \A i \in 1..Len(written) :
           written[i].k \in OptionalKinds =>
               Appended(i) = IF written[i].v = <<>> THEN <<0>>
                             ELSE <<1>> \o InnerEncoding(written[i].k, written[i].v[1])
    /\ (ReadBack /\ res.k \in OptionalKinds) =>
           res.val = written[nread].v /\ rpos = written[nread].end
    /\ FailedField => written[nread + 1].k \notin OptionalKinds

\* a present optional<u32> has been written as 1 and the value, and read back
C5_Witness ==
    /\ ReadBack
    /\ res.k = Optional("u32")
    /\ res.val = << <<255, 255, 255, 255>> >>
    /\ Appended(nread) = <<1, 255, 255, 255, 255>>

\* the encodings of the elements of a vector, one after the other
RECURSIVE Concat(_, _)
Concat(e, items) ==
    IF items = <<>> THEN <<>> ELSE WriteFunc(e, <<>>, Head(items)) \o Concat(e, Tail(items))

\* C6: write_vector emits a 4-byte little-endian count N, then the N element
\* encodings in order (four zero bytes for N = 0); read_vector on that
\* output returns the N elements in the original order.
C6_VectorLayout ==
    /\ \A i \in 1..Len(written) :
           written[i].k.t = "vector" =>
               Appended(i) = LittleEndian(Len(written[i].v), 4)
                                 \o Concat(written[i].k.e, written[i].v)
    /\ (ReadBack /\ res.k.t = "vector") =>
           res.val = written[nread].v /\ rpos = written[nread].end
    /\ FailedField => written[nread + 1].k.t # "vector"

\* C7: write_bool appends exactly one byte, 0 for false and 1 for true, and
\* read_bool returns false for the byte 0 and true for every nonzero byte.
C7_Bool ==
    /\ \A i \in 1..Len(written) :
           written[i].k = Prim("bool") =>
               Appended(i) = IF written[i].v THEN <<1>> ELSE <<0>>
    /\ (ropen /\ res.k = Prim("bool") /\ Remaining0 >= 1) =>
           /\ ~res.thrown
           /\ res.val = (rdata[res.pos0 + 1] # 0)
           /\ rpos = res.pos0 + 1

\* read_bool has returned true for the byte 254
C7_Witness ==
    ropen /\ rdata = <<254>> /\ res.k = Prim("bool") /\ ~res.thrown /\ res.val = TRUE

\* C8: an enum value is encoded as exactly the 4 bytes write_i32 produces for
\* its discriminant, and read_enum returns the enum value with the
\* discriminant read: read_enum(write_enum(e)) = e.
C8_Enum ==
    /\ \A i \in 1..Len(written) :
           written[i].k = Prim("enum") =>
               /\ Appended(i) = write_i32(<<>>, written[i].v.disc)
               /\ Len(Appended(i)) = 4
    /\ (ReadBack /\ res.k = Prim("enum")) =>
           res.val = written[nread].v /\ rpos = written[nread].end
    /\ FailedField => written[nread + 1].k # Prim("enum")

\* the enum value with discriminant -1 has been read back
C8_Witness ==
    ReadBack /\ res.k = Prim("enum") /\ res.val = [disc |-> Neg(<<0, 0, 0, 1>>)]

\* C9: write_f32 / write_f64 append exactly the bytes write_u32 / write_u64
\* append for the value's raw bit pattern, and read_f32 / read_f64 return the
\* value with the bit pattern read: every pattern round-trips unchanged.
C9_Float ==
    /\ \A i \in 1..Len(written) :
           /\ written[i].k = Prim("f32") => Appended(i) = write_u32(<<>>, written[i].v.bits)
           /\ written[i].k = Prim("f64") => Appended(i) = write_u64(<<>>, written[i].v.bits)
    /\ (ReadBack /\ res.k.t \in {"f32", "f64"}) =>
           res.val = written[nread].v /\ rpos = written[nread].end
    /\ FailedField => written[nread + 1].k.t \notin {"f32", "f64"}

\* a NaN with a payload has been read back as a float
C9_Witness ==
    ReadBack /\ res.k = Prim("f32") /\ res.val = [bits |-> <<127, 192, 0, 1>>]

(***************************************************************************)
(* UniqueIndex calls                                                       *)
(***************************************************************************)
Keys == {1, 2, 999}
RowPointers == {nullptr, "row1", "row2"}

\* a UniqueIndex just constructed; no writer and no reader exist
InitIndex ==
    /\ host = "little"
    /\ NoWriter
    /\ NoReader
    /\ NoIndex
    /\ NoGroup
    /\ NoTable
    /\ NoPack

UInsert ==
    \E key \in Keys, value \in RowPointers :
        /\ Len(ulog) < MaxInserts
        /\ index_' = UniqueIndex_insert(index_, key, value)
        /\ ulog' = Append(ulog, <<key, value>>)
        /\ UNCHANGED <<host, packVars, writerVars, readerVars, groupVars, tableVars, ures>>

UGet ==
    \E key \in Keys :
        /\ ures' = [op |-> "get", key |-> key, val |-> UniqueIndex_get(index_, key)]
        /\ UNCHANGED <<host, packVars, writerVars, readerVars, groupVars, tableVars, index_, ulog>>

UContains ==
    \E key \in Keys :
        /\ ures' = [op |-> "contains", key |-> key,
                    val |-> IF UniqueIndex_contains(index_, key) THEN "true" ELSE "false"]
        /\ UNCHANGED <<host, packVars, writerVars, readerVars, groupVars, tableVars, index_, ulog>>

UClear ==
    /\ index_' = UniqueIndex_clear(index_)
    /\ ulog' = <<>>
    /\ UNCHANGED <<host, packVars, writerVars, readerVars, groupVars, tableVars, ures>>

NextIndex == UInsert \/ UGet \/ UContains \/ UClear

SpecIndex == InitIndex /\ [][NextIndex]_vars

\* the positions of ulog at which key was inserted
InsertsOf(key) == {i \in 1..Len(ulog) : ulog[i][1] = key}

\* the largest element of a non-empty set of numbers
Last(S) == CHOOSE i \in S : \A j \in S : j <= i

\* C10: after any sequence of insert and clear calls on a UniqueIndex every
\* key maps to at most one row reference, and get(k) returns the reference
\* passed to the most recent insert(k, .) since the last clear: an insert
\* under a used key replaces the mapping.
C10_Unique ==
    /\ \A p \in index_, q \in index_ : p[1] = q[1] => p = q
    /\ \A key \in Keys :
           InsertsOf(key) # {} =>
               UniqueIndex_get(index_, key) = ulog[Last(InsertsOf(key))][2]

\* a key was inserted twice with different rows, and get returns the second
C10_Witness ==
    \E i \in 1..Len(ulog), j \in 1..Len(ulog) :
        /\ i < j
        /\ ulog[i][1] = ulog[j][1]
        /\ ulog[i][2] # ulog[j][2]
        /\ j = Last(InsertsOf(ulog[j][1]))
        /\ UniqueIndex_get(index_, ulog[j][1]) = ulog[j][2]

\* C11: UniqueIndex.get(k) for a key that has not been inserted since
\* construction or the last clear returns the not-found result (nullptr) and
\* raises no error, and a lookup leaves the index unchanged; get for a key
\* that was inserted returns the row inserted for it.
C11_GetAbsent ==
    /\ [](\A key \in Keys :
             /\ InsertsOf(key) = {} =>
                    UniqueIndex_get(index_, key) = nullptr
                        /\ ~UniqueIndex_contains(index_, key)
             /\ InsertsOf(key) # {} =>
                    UniqueIndex_get(index_, key) \in {ulog[i][2] : i \in InsertsOf(key)})
    /\ [][ures' # ures =>
             /\ index_' = index_
             /\ ures'.op = "get" =>
                    ures'.val = IF InsertsOf(ures'.key) = {} THEN nullptr
                                ELSE ulog[Last(InsertsOf(ures'.key))][2]]_vars

\* keys 1 and 2 hold rows and get(999) has reported not-found
C11_Witness ==
    /\ UniqueIndex_get(index_, 1) = "row1"
    /\ UniqueIndex_get(index_, 2) = "row2"
    /\ ures = [op |-> "get", key |-> 999, val |-> nullptr]
    /\ InsertsOf(999) = {}

(***************************************************************************)
(* GroupIndex calls, on two objects of one GroupIndex<K, V> type            *)
(***************************************************************************)
GroupKeys == {1, 999}
GroupPointers == {"row1", "row2"}

\* two GroupIndex objects just constructed
InitGroup ==
    /\ host = "little"
    /\ NoWriter
    /\ NoReader
    /\ NoIndex
    /\ NoGroup
    /\ NoTable
    /\ NoPack

GInsert ==
    \E g \in Objects, key \in GroupKeys, value \in GroupPointers :
        LET x == GroupIndex_insert(gindex_[g], empty_, key, value)
        IN  /\ Len(glog[1]) + Len(glog[2]) < MaxGroupInserts
            /\ gindex_' = [gindex_ EXCEPT ![g] = x.index_]
            /\ empty_' = x.empty_
            /\ glog' = [glog EXCEPT ![g] = Append(@, <<key, value>>)]
            /\ UNCHANGED <<host, packVars, writerVars, readerVars, indexVars, tableVars, gres>>

GGet ==
    \E g \in Objects, key \in GroupKeys :
        /\ gres' = [obj |-> g, op |-> "get", key |-> key,
                    val |-> GroupIndex_get(gindex_[g], empty_, key)]
        /\ UNCHANGED <<host, packVars, writerVars, readerVars, indexVars, tableVars,
                       gindex_, empty_, glog>>

GContains ==
    \E g \in Objects, key \in GroupKeys :
        /\ gres' = [obj |-> g, op |-> "contains", key |-> key,
                    val |-> IF GroupIndex_contains(gindex_[g], key) THEN "true" ELSE "false"]
        /\ UNCHANGED <<host, packVars, writerVars, readerVars, indexVars, tableVars,
                       gindex_, empty_, glog>>

GClear ==
    \E g \in Objects :
        LET x == GroupIndex_clear(gindex_[g], empty_)
        IN  /\ gindex_' = [gindex_ EXCEPT ![g] = x.index_]
            /\ empty_' = x.empty_
            /\ glog' = [glog EXCEPT ![g] = <<>>]
            /\ UNCHANGED <<host, packVars, writerVars, readerVars, indexVars, tableVars, gres>>

NextGroup == GInsert \/ GGet \/ GContains \/ GClear

\* a program that uses one index: a UniqueIndex, or GroupIndex objects
NextEither == (NoGroup /\ NextIndex) \/ (NoIndex /\ NextGroup)

SpecEither == InitIndex /\ [][NextEither]_vars

SpecGroup == InitGroup /\ [][NextGroup]_vars

\* the pointers of the pairs of a log that carry the key, in the log's order
RECURSIVE InsertedUnder(_, _)
InsertedUnder(log, key) ==
    IF log = <<>> THEN <<>>
    ELSE (IF Head(log)[1] = key THEN <<Head(log)[2]>> ELSE <<>>)
             \o InsertedUnder(Tail(log), key)

\* C12: after any sequence of GroupIndex.insert calls (no clear in between),
\* get(K) returns exactly the row references inserted under K, in the order
\* of the inserts; the list of K exists from the first insert under K on.
C12_GroupOrder ==
    \A g \in Objects, key \in GroupKeys :
        InsertedUnder(glog[g], key) # <<>> =>
            /\ GroupIndex_get(gindex_[g], empty_, key) = InsertedUnder(glog[g], key)
            /\ GroupIndex_contains(gindex_[g], key)

\* row2 and then row1 were inserted under one key, and get returned them so
C12_Witness ==
    \E g \in Objects, key \in GroupKeys :
        /\ InsertedUnder(glog[g], key) = <<"row2", "row1">>
        /\ gres.op = "get" /\ gres.obj = g /\ gres.key = key
        /\ gres.val = <<"row2", "row1">>

RowValues == [id : {1, 2}, grp : {1, 2}]

\* a schema container just constructed
InitTable ==
    /\ host = "little"
    /\ NoWriter
    /\ NoReader
    /\ NoIndex
    /\ NoGroup
    /\ NoTable
    /\ NoPack

TAddRow ==
    \E row \in RowValues :
        LET x == Table_add_row(rows_, uidx, gidx, empty_, row)
        IN  /\ Len(tlog) < MaxRows
            /\ rows_' = x.rows_
            /\ uidx' = x.uidx
            /\ gidx' = x.gidx
            /\ empty_' = x.empty_
            /\ tlog' = Append(tlog, row)
            /\ tres' = [op |-> "add_row", val |-> DataTable_add_row(rows_, row).ret]
            /\ UNCHANGED <<host, packVars, writerVars, readerVars, indexVars, gindex_, glog, gres, held>>

\* the caller keeps a reference to a stored row (T& r = table[index]) with the
\* content it sees through it
TRef ==
    \E index \in 0..(DataTable_count(rows_) - 1) :
        /\ held' = {[addr |-> DataTable_at(rows_, index), row |-> rows_[index + 1].row,
                     n |-> index + 1, count |-> DataTable_count(rows_)]}
        /\ UNCHANGED <<host, packVars, writerVars, readerVars, indexVars, groupVars,
                       rows_, uidx, gidx, tlog, tres>>

TIterate ==
    /\ tres' = [op |-> "iterate", val |-> DataTable_iterate(rows_)]
    /\ UNCHANGED <<host, packVars, writerVars, readerVars, indexVars, groupVars,
                   rows_, uidx, gidx, held, tlog>>

TCount ==
    /\ tres' = [op |-> "count", val |-> DataTable_count(rows_)]
    /\ UNCHANGED <<host, packVars, writerVars, readerVars, indexVars, groupVars,
                   rows_, uidx, gidx, held, tlog>>

\* clear; the references the caller held are dropped with the rows
TClear ==
    LET x == Table_clear(rows_, uidx, gidx, empty_)
    IN  /\ rows_' = x.rows_
        /\ uidx' = x.uidx
        /\ gidx' = x.gidx
        /\ empty_' = x.empty_
        /\ held' = {}
        /\ tlog' = <<>>
        /\ tres' = [op |-> "clear", val |-> tlog]
        /\ UNCHANGED <<host, packVars, writerVars, readerVars, indexVars, gindex_, glog, gres>>

TGetById ==
    \E key \in Keys :
        /\ tres' = [op |-> "get_by_id", val |-> <<key, Table_get_by_id(uidx, key)>>]
        /\ UNCHANGED <<host, packVars, writerVars, readerVars, indexVars, groupVars,
                       rows_, uidx, gidx, held, tlog>>

TGetByGroup ==
    \E key \in Keys :
        /\ tres' = [op |-> "get_by_grp", val |-> <<key, Table_get_by_grp(gidx, empty_, key)>>]
        /\ UNCHANGED <<host, packVars, writerVars, readerVars, indexVars, groupVars,
                       rows_, uidx, gidx, held, tlog>>

NextTable == TAddRow \/ TRef \/ TIterate \/ TCount \/ TClear \/ TGetById \/ TGetByGroup

SpecTable == InitTable /\ [][NextTable]_vars

\* the step is an add_row call
AddRowStep == Len(tlog') = Len(tlog) + 1

\* the address of a stored row holding the given content
StoredAt(rows, addr, row) == \E i \in 1..Len(rows) : rows[i] = [addr |-> addr, row |-> row]

\* C14 as stated: add_row(value) puts the row at the end of storage (count()
\* grows by one and the row is last in iteration order) and returns a stable
\* reference to the stored copy.
C14_AddRowReturnsRef ==
    [][AddRowStep =>
          /\ DataTable_count(rows_') = DataTable_count(rows_) + 1
          /\ DataTable_iterate(rows_')[DataTable_count(rows_')].row = tlog'[Len(tlog')]
          /\ tres'.val = rows_'[Len(rows_')].addr]_vars

\* C14 as amended: add_row(value) puts the row at the end of storage (count()
\* grows by one, the row is last in iteration order, the rows before it stay
\* in place) and returns nothing; the reference to the stored copy is the
\* one operator[] gives for index count() - 1, and while no clear is made
\* every stored row keeps its address and content.
C14_AddRow ==
    /\ [][AddRowStep =>
             /\ DataTable_count(rows_') = DataTable_count(rows_) + 1
             /\ DataTable_iterate(rows_')[DataTable_count(rows_')].row = tlog'[Len(tlog')]
             /\ tres'.op = "add_row" /\ tres'.val = "void"
             /\ StoredAt(rows_', DataTable_at(rows_', DataTable_count(rows_') - 1), tlog'[Len(tlog')])]_vars
    /\ [][tlog' # <<>> => \A i \in 1..Len(rows_) : rows_'[i] = rows_[i]]_vars

\* a second row was added: it is last, and add_row returned nothing
C14_Witness ==
    /\ tres.op = "add_row" /\ tres.val = "void"
    /\ Len(rows_) = 2
    /\ rows_[1].row # rows_[2].row
    /\ rows_[2].row = tlog[2]

\* C15: a reference to a stored row, once obtained, keeps referring to the
\* same row with unchanged content after any number of further add_row
\* calls, until clear(): no insertion moves or alters an existing row.
C15_PointerStable ==
    \A h \in held :
        /\ h.n <= Len(rows_)
        /\ rows_[h.n].addr = h.addr
        /\ rows_[h.n].row = h.row
        /\ \A i \in 1..Len(rows_) : rows_[i].addr = h.addr => i = h.n

\* a reference to the first row was taken when it was the only row, and two
\* rows were added afterwards
C15_Witness ==
    \E h \in held : h.n = 1 /\ h.count = 1 /\ Len(rows_) = 3

\* C16: iterating a Row Store yields exactly the rows added since the last
\* clear, each once, in the order of their add_row calls, starting at the
\* first row every time; the number of rows yielded equals count().
C16_Iteration ==
    /\ [i \in 1..Len(DataTable_iterate(rows_)) |-> DataTable_iterate(rows_)[i].row] = tlog
    /\ Len(DataTable_iterate(rows_)) = DataTable_count(rows_)
    /\ \A i \in 1..Len(rows_), j \in 1..Len(rows_) :
           DataTable_iterate(rows_)[i].addr = DataTable_iterate(rows_)[j].addr => i = j
    /\ tres.op = "iterate" =>
           /\ Len(tres.val) = DataTable_count(rows_)
           /\ \A i \in 1..Len(tlog) : tres.val[i].row = tlog[i]

\* three rows were added after a clear and an iteration yielded them in order
C16_Witness ==
    /\ tres.op = "iterate"
    /\ Len(tres.val) = 3
    /\ tlog = <<[id |-> 2, grp |-> 1], [id |-> 1, grp |-> 1], [id |-> 2, grp |-> 2]>>
    /\ \A i \in 1..3 : tres.val[i].row = tlog[i]

\* the row pointers an index of the table holds
UniquePointers == {p[2] : p \in uidx}
GroupedPointers == UNION {{gidx[k][i] : i \in 1..Len(gidx[k])} : k \in DOMAIN gidx}

\* C17: after clear() on a table count() is 0 and every index lookup for a
\* key that was present before the clear reports not-found (unique index)
\* or an empty sequence (group index); no index keeps a reference to a
\* discarded row.
C17_Clear ==
    /\ tres.op = "clear" =>
           /\ DataTable_count(rows_) = 0
           /\ \A i \in 1..Len(tres.val) :
                  /\ Table_get_by_id(uidx, tres.val[i].id) = nullptr
                  /\ Table_get_by_grp(gidx, empty_, tres.val[i].grp) = <<>>
    /\ \A ptr \in UniquePointers \cup GroupedPointers :
           \E i \in 1..Len(rows_) : rows_[i].addr = ptr

\* a table holding two rows was cleared
C17_Witness ==
    tres.op = "clear" /\ Len(tres.val) = 2 /\ tres.val[1].id # tres.val[2].id

\* C18: after any sequence of add_row calls on a table of a schema container
\* (no clear), every index of the table is populated for every stored row r:
\* the unique index's get(key(r)) is a stored row whose key equals key(r) (r
\* itself when no later row carries the key), and the group index's
\* get(key(r)) contains r.
C18_IndexesPopulated ==
    \A i \in 1..Len(rows_) :
        LET r == rows_[i]
            u == Table_get_by_id(uidx, r.row.id)
            g == Table_get_by_grp(gidx, empty_, r.row.grp)
        IN  /\ \E j \in 1..Len(rows_) : rows_[j].addr = u /\ rows_[j].row.id = r.row.id
            /\ (\A j \in (i + 1)..Len(rows_) : rows_[j].row.id # r.row.id) => u = r.addr
            /\ \E n \in 1..Len(g) : g[n] = r.addr

\* three rows: the third carries the first's id, the second the first's group
C18_Witness ==
    /\ Len(rows_) = 3
    /\ rows_[3].row.id = rows_[1].row.id
    /\ rows_[2].row.id # rows_[1].row.id
    /\ rows_[2].row.grp = rows_[1].row.grp
    /\ Table_get_by_id(uidx, rows_[1].row.id) = rows_[3].addr
    /\ Table_get_by_grp(gidx, empty_, rows_[1].row.grp) = <<rows_[1].addr, rows_[2].addr>>

(***************************************************************************)
(* pack / unpack calls on a value of a pack type                            *)
(***************************************************************************)
\* Type::try_unpack(str, out): the fields are parsed in declared order into out,
\* the first part that does not parse ends the call with false; the result is
\* a boolean, never an exception
RECURSIVE try_fields(_, _, _)
try_fields(type, parts, out) ==
    LET i == Len(out) + 1
    IN  IF i > Len(type.fields) THEN [ok |-> TRUE, val |-> out, thrown |-> FALSE]
        ELSE LET f == parse(type.fields[i], parts[i])
             IN  IF f.ok THEN try_fields(type, parts, Append(out, f.val))
                 ELSE [ok |-> FALSE, val |-> out, thrown |-> FALSE]

\* a try_unpack that does not count the parts: it reads the leading ones
try_unpack_lenient(type, str) ==
    LET parts == split(str, type.delim)
    IN  IF Len(parts) < Len(type.fields) THEN [ok |-> FALSE, val |-> <<>>, thrown |-> FALSE]
        ELSE try_fields(type, parts, <<>>)

try_unpack(type, str) ==
    LET parts == split(str, type.delim)
    IN  IF Len(parts) # Len(type.fields) THEN [ok |-> FALSE, val |-> <<>>, thrown |-> FALSE]
        ELSE try_fields(type, parts, <<>>)

PackTypes ==
    {[name |-> "Position", delim |-> ";", fields |-> <<"f32", "f32">>],
     [name |-> "Position3D", delim |-> ";", fields |-> <<"f32", "f32", "f32">>],
     [name |-> "Color", delim |-> ",", fields |-> <<"u8", "u8", "u8">>],
     [name |-> "ColorAlpha", delim |-> "|", fields |-> <<"u8", "u8", "u8", "u8">>],
     [name |-> "Size", delim |-> ";", fields |-> <<"u32", "u32">>],
     [name |-> "Range", delim |-> "~", fields |-> <<"i32", "i32">>]}

FieldValues(kind) ==
    CASE kind = "u8" -> {0, 64, 128, 255}
      [] kind = "u32" -> {0, 600, 800, 2147483647}
      [] kind = "i32" -> {-2147483647, -100, 0, 100}
      [] kind = "f32" -> {[neg |-> FALSE, whole |-> 100, frac |-> <<5>>],
                          [neg |-> FALSE, whole |-> 200, frac |-> <<3>>],
                          [neg |-> FALSE, whole |-> 10, frac |-> <<>>],
                          [neg |-> TRUE, whole |-> 0, frac |-> <<2, 5>>]}

\* the values with fields of the given kinds
RECURSIVE Tuples(_)
Tuples(kinds) ==
    IF kinds = <<>> THEN {<<>>}
    ELSE {<<v>> \o rest : v \in FieldValues(Head(kinds)), rest \in Tuples(Tail(kinds))}

ValuesOf(type) == Tuples(type.fields)

\* a value of a pack type, its fields set
InitPack ==
    /\ host = "little"
    /\ NoWriter
    /\ NoReader
    /\ NoIndex
    /\ NoGroup
    /\ NoTable
    /\ ptype \in PackTypes
    /\ pvalue \in ValuesOf(ptype)
    /\ packed = <<>>
    /\ unpacked = <<>>
    /\ tried = <<>>

Pack ==
    /\ packed' = <<pack(ptype, pvalue)>>
    /\ unpacked' = <<>>
    /\ UNCHANGED <<host, writerVars, readerVars, indexVars, groupVars, tableVars,
                   ptype, pvalue, tried>>

Unpack ==
    /\ packed # <<>>
    /\ unpacked' = <<unpack(ptype, packed[1])>>
    /\ UNCHANGED <<host, writerVars, readerVars, indexVars, groupVars, tableVars,
                   ptype, pvalue, packed, tried>>

\* the strings a caller hands to try_unpack: the literals of the pack tests,
\* strings with a part too many or too few, an empty part, an empty string
PackInputs ==
    {<<"i", "n", "v", "a", "l", "i", "d">>,
     <<"1", ".", "0", ";", "2", ".", "0">>,
     <<"1", ".", "0", ";", "2", ".", "0", ";", "3", ".", "0">>,
     <<"1", ".", "0", ";", ";", "2", ".", "0">>,
     <<"1", ";", "2">>,
     <<"x", ";", "2">>,
     <<"7">>,
     <<>>,
     <<"2", "5", "5", ",", "1", "2", "8", ",", "6", "4">>,
     <<"2", "5", "5", ",", "1", "2", "8">>,
     <<"2", "5", "5", "|", "2", "5", "5", "|", "2", "5", "5", "|", "1", "2", "8">>,
     <<"-", "1", "0", "0", "~", "1", "0", "0">>,
     <<"-", "1", "0", "0", "~">>}

\* Type::try_unpack(str, out) on a string of the caller's, or on the string
\* pack() returned
TryUnpack ==
    /\ \E s \in PackInputs \cup {packed[i] : i \in 1..Len(packed)} :
            tried' = <<[str |-> s, out |-> try_unpack(ptype, s)]>>
    /\ UNCHANGED <<host, writerVars, readerVars, indexVars, groupVars, tableVars,
                   ptype, pvalue, packed, unpacked>>

NextPack == Pack \/ Unpack \/ TryUnpack

SpecPack == InitPack /\ [][NextPack]_vars

\* C19: for every value of a pack type with N fields, pack(value) split on
\* the type's delimiter yields exactly N parts, the i-th part being the
\* rendering of the i-th declared field.
C19_PackParts ==
    packed # <<>> =>
        LET parts == split(packed[1], ptype.delim)
        IN  /\ Len(parts) = Len(ptype.fields)
            /\ \A i \in 1..Len(parts) : parts[i] = render(ptype.fields[i], pvalue[i])

\* a ColorAlpha value was packed to "255|255|255|128"
C19_Witness ==
    /\ ptype.name = "ColorAlpha"
    /\ pvalue = <<255, 255, 255, 128>>
    /\ packed = << <<"2", "5", "5", "|", "2", "5", "5", "|", "2", "5", "5", "|", "1", "2", "8">> >>

IntegerTypes == {t \in PackTypes : \A i \in 1..Len(t.fields) : t.fields[i] # "f32"}

\* the string is the plain decimal form of the number: digits only, after a
\* '-' exactly when the number is negative, no leading zero, denoting it
PlainDecimal(str, n) ==
    LET d == IF n < 0 THEN Tail(str) ELSE str
    IN  /\ str # <<>>
        /\ (n < 0) = (str[1] = "-")
        /\ d # <<>>
        /\ \A i \in 1..Len(d) : IsDigit(d[i])
        /\ (Len(d) > 1 => d[1] # "0")
        /\ NumberOf(d) = (IF n < 0 THEN 0 - n ELSE n)

\* C20: for every pack type whose fields are all integers and every value v
\* of it, pack(v) renders each field as plain decimal (no leading zeros, a
\* leading '-' for negatives) joined by the delimiter, and unpack(pack(v))
\* returns a value with every field equal to v's.
C20_IntPack ==
    (ptype \in IntegerTypes /\ packed # <<>>) =>
        LET parts == split(packed[1], ptype.delim)
        IN  /\ Len(parts) = Len(pvalue)
            /\ \A i \in 1..Len(parts) : PlainDecimal(parts[i], pvalue[i])
            /\ packed[1] = join(parts, ptype.delim)
            /\ unpacked # <<>> => unpacked[1].ok /\ unpacked[1].val = pvalue

\* the Range (-100, 100) was packed to "-100~100" and unpacked again
C20_Witness ==
    /\ ptype.name = "Range"
    /\ pvalue = <<-100, 100>>
    /\ packed = << <<"-", "1", "0", "0", "~", "1", "0", "0">> >>
    /\ unpacked = <<Parsed(<<-100, 100>>)>>

\* C21: try_unpack(s) reports success exactly when unpack(s) signals no
\* failure, that is when the number of delimiter-separated parts is the field
\* count and every part parses as its field's type; on success its value is
\* the one unpack(s) returns; it never signals an error itself
C21_TryUnpack ==
    tried # <<>> =>
        LET s == tried[1].str
            out == tried[1].out
            parts == split(s, ptype.delim)
            wellFormed == /\ Len(parts) = Len(ptype.fields)
                          /\ \A i \in 1..Len(parts) : parse(ptype.fields[i], parts[i]).ok
        IN  /\ ~out.thrown
            /\ out.ok <=> unpack(ptype, s).ok
            /\ out.ok <=> wellFormed
            /\ out.ok => out.val = unpack(ptype, s).val

\* try_unpack refused "1.0;2.0;3.0" as a Position: three parts for two fields
C21_Witness ==
    /\ ptype.name = "Position"
    /\ tried # <<>>
    /\ tried[1].str = <<"1", ".", "0", ";", "2", ".", "0", ";", "3", ".", "0">>
    /\ ~tried[1].out.ok
    /\ ~tried[1].out.thrown

\* try_unpack accepted "1.0;2.0" as the Position (1.0, 2.0)
C21_Accepted ==
    /\ ptype.name = "Position"
    /\ tried # <<>>
    /\ tried[1].str = <<"1", ".", "0", ";", "2", ".", "0">>
    /\ tried[1].out.ok
    /\ tried[1].out.val = <<[neg |-> FALSE, whole |-> 1, frac |-> <<>>],
                            [neg |-> FALSE, whole |-> 2, frac |-> <<>>]>>

\* C22: the fields of any mix of kinds written in order through one writer are
\* read back, kind by kind in the same order, with the same values; each read
\* consumes exactly the bytes its write produced, none fails, and after the
\* last one the reader is at the end of the input
C22_Sequence ==
    ropen =>
        /\ rdata = wstream
        /\ ReadBack =>
               /\ res.k = written[nread].k
               /\ res.val = written[nread].v
               /\ res.pos0 = written[nread].off
               /\ rpos = written[nread].end
        /\ ~FailedField
        /\ (nread = Len(written) /\ rok) => rpos = Len(rdata)

\* an empty string, an absent optional and a vector of strings were written
\* and read back, and the reader is at the end of the input
C22_Witness ==
    /\ ReadBack
    /\ nread = 3
    /\ written[1].k = Prim("string") /\ written[1].v = <<>>
    /\ written[2].k = Optional("u32") /\ written[2].v = <<>>
    /\ written[3].k = Vector("string")
    /\ res.val = <<Payload(0), Payload(1)>>
    /\ rpos = Len(rdata)

\* the count prefix the last read_vector call found, as a number (any count
\* above the size of the input counts as that size plus one)
DeclaredCount == Declared0

\* the complete string encodings (length prefix and payload) in the input from
\* position pos on
RECURSIVE CompleteStrings(_)
CompleteStrings(pos) ==
    IF pos + 4 > Len(rdata) THEN 0
    ELSE LET n == CountOf(FromObjRep(SubSeq(rdata, pos + 1, pos + 4)), Len(rdata))
         IN  IF pos + 4 + n > Len(rdata) THEN 0 ELSE 1 + CompleteStrings(pos + 4 + n)

\* the complete element encodings that follow the count prefix of the last
\* read_vector call
CompleteElements ==
    IF res.k.e = "string" THEN CompleteStrings(res.pos0 + 4)
    ELSE (Remaining0 - 4) \div 2

\* C23: read_vector on an input whose count prefix is N but which holds fewer
\* than N complete element encodings fails with the end-of-stream error of the
\* element decode, returns no elements, and raises no other kind of error
C23_VectorTruncated ==
    (ropen /\ res.k.t = "vector" /\ Remaining0 >= 4 /\ DeclaredCount > CompleteElements) =>
        /\ res.thrown
        /\ res.what = "end of stream"
        /\ res.val = NoValue
        /\ ~rok

\* a read_vector failed, with the end-of-stream error, on an input that holds
\* one of its two declared elements
C23_EndOfStream ==
    /\ ropen /\ res.k = Vector("u16") /\ Remaining0 = 7
    /\ DeclaredCount = 2
    /\ res.thrown /\ res.what = "end of stream"

\* a read_vector failed with bad_alloc on the input FF FF FF FF
C23_BadAlloc ==
    /\ ropen /\ res.k.t = "vector" /\ rdata = <<255, 255, 255, 255>>
    /\ res.thrown /\ res.what = "bad_alloc" /\ rok

\* the presence flag byte the last read_optional / read_optional_string call found
Flag0 == rdata[res.pos0 + 1]

\* the last call went on to decode the inner value after the flag byte: it
\* consumed more than the flag, or failed in the inner read
InnerDecoded == res.thrown \/ rpos > res.pos0 + 1

\* the outcome of the inner read_* call right after the flag byte
InnerRead ==
    ReadFunc(IF res.k = Optional("u32") THEN "u32" ELSE "string",
             Reader(rdata, res.pos0 + 1, TRUE))

\* C24 as stated: read_optional and read_optional_string decode the inner
\* value if and only if the presence flag byte equals 1; a flag byte of 0
\* yields absent and consumes only that one byte
C24_FlagOne ==
    (ropen /\ res.k \in OptionalKinds /\ Remaining0 >= 1) =>
        /\ InnerDecoded <=> Flag0 = 1
        /\ Flag0 = 0 => ~res.thrown /\ res.val = <<>> /\ rpos = res.pos0 + 1

\* C24 as the code has it: read_optional and read_optional_string decode the
\* inner value if and only if the presence flag byte is nonzero, and then
\* return what the inner read returns or fail as it fails; a flag byte of 0
\* yields absent and consumes only that one byte
C24_FlagNonzero ==
    (ropen /\ res.k \in OptionalKinds /\ Remaining0 >= 1) =>
        /\ InnerDecoded <=> Flag0 # 0
        /\ Flag0 = 0 => ~res.thrown /\ res.val = <<>> /\ rpos = res.pos0 + 1
        /\ Flag0 # 0 =>
               /\ res.thrown = InnerRead.thrown
               /\ rpos = InnerRead.rd.pos
               /\ ~res.thrown => res.val = <<InnerRead.val>>

\* read_optional found the flag byte 8 and returned a present value read from
\* the four bytes after it
C24_Witness ==
    /\ ropen /\ res.k = Optional("u32") /\ res.pos0 = 0 /\ Remaining0 >= 5 /\ Flag0 = 8
    /\ ~res.thrown /\ Len(res.val) = 1 /\ rpos = 5

\* the encodings of the first n fields written, each as a writer with an
\* empty stream produces it, one after the other
RECURSIVE AllWritten(_)
AllWritten(n) ==
    IF n = 0 THEN <<>>
    ELSE AllWritten(n - 1) \o WriteField(written[n].k, <<>>, written[n].v)

\* C25: the output of a writer only grows: the bytes accumulated after k
\* write_* calls are a prefix of the bytes accumulated after k + 1 calls; each
\* call appends the (non-empty) encoding of its value after the bytes already
\* written, which it leaves as they are; no call fails
C25_AppendOnly ==
    [][/\ Len(wstream') >= Len(wstream)
       /\ SubSeq(wstream', 1, Len(wstream)) = wstream
       /\ written' # written =>
              /\ Len(written') = Len(written) + 1
              /\ SubSeq(written', 1, Len(written)) = written
              /\ Len(wstream') > Len(wstream)
              /\ wstream' = AllWritten(Len(written))'
       /\ written' = written => wstream' = wstream]_vars

\* three fields have been written one after the other through one writer
C25_Witness ==
    /\ walive
    /\ Len(written) = 3
    /\ written[1].end = written[2].off
    /\ written[2].end = written[3].off
    /\ written[3].end = Len(wstream)
    /\ written[2].off > 0

\* C26: write_* calls leave the caller's vector unchanged until flush() or the
\* writer's destruction; a flush makes the vector exactly the concatenation of
\* all bytes written through this writer, whatever the vector held before; a
\* second flush with no write in between leaves the vector unchanged
C26_Flush ==
    /\ [](~walive => vec = AllWritten(Len(written)))
    /\ []((walive /\ vec = wstream) => vec_assign(vec, wstream) = vec)
    /\ [][/\ written' # written => vec' = vec
          /\ vec' # vec => /\ vec' = AllWritten(Len(written))
                           /\ written' = written
                           /\ wstream' = wstream]_vars

\* the vector holds the first field, flushed before the second was written
C26_Witness ==
    /\ walive
    /\ Len(written) = 2
    /\ vec = AllWritten(1)
    /\ vec # wstream

\* C27: once a read has failed with the end-of-stream error, every later read
\* of any kind on the same reader fails with that error and returns no value
C27_Sticky ==
    [][(ropen /\ res.thrown /\ res.what = "end of stream") =>
           /\ res'.thrown
           /\ res'.what = "end of stream"
           /\ res'.val = NoValue
           /\ nread' = nread
           /\ ~rok']_vars

\* a read_u8 failed on a three-byte input of which no read returned a value:
\* an earlier, wider read had failed
C27_Witness ==
    /\ ropen /\ Len(rdata) = 3 /\ nread = 0
    /\ res.k = Prim("u8") /\ res.thrown /\ res.what = "end of stream"

\* the row reference passed to the latest insert under key, for a key inserted
\* since the last clear
LatestInserted(key) == ulog[Last(InsertsOf(key))][2]

\* C28 as stated: after any sequence of insert and clear calls on a
\* UniqueIndex, with any row-reference values passed to insert, contains(k) is
\* true if and only if get(k) returns a row reference and not the not-found
\* result
C28_ContainsIffGet ==
    \A key \in Keys :
        UniqueIndex_contains(index_, key) <=> UniqueIndex_get(index_, key) # nullptr

\* C28 as the code has it: contains(k) is true exactly for the keys inserted
\* since the last clear; for every key whose latest insert passed a non-null
\* row reference, and for every key not inserted, contains(k) is true if and
\* only if get(k) returns a row reference; a key inserted with a null
\* reference is contained while get(k) returns the not-found result
C28_ContainsIffGetNonNull ==
    \A key \in Keys :
        /\ UniqueIndex_contains(index_, key) <=> InsertsOf(key) # {}
        /\ (InsertsOf(key) = {} \/ LatestInserted(key) # nullptr) =>
               (UniqueIndex_contains(index_, key) <=> UniqueIndex_get(index_, key) # nullptr)
        /\ (InsertsOf(key) # {} /\ LatestInserted(key) = nullptr) =>
               UniqueIndex_contains(index_, key) /\ UniqueIndex_get(index_, key) = nullptr

\* key 1 holds a row, key 2 holds none, key 999 was inserted with a null
\* reference; contains(999) has answered true
C28_Witness ==
    /\ index_ = {<<1, "row1">>, <<999, nullptr>>}
    /\ ures.op = "contains" /\ ures.key = 999 /\ ures.val = "true"

\* the positions of tlog of the rows that carry the unique key id
RowsWithId(id) == {i \in 1..Len(tlog) : tlog[i].id = id}

\* C29: in a table with a unique index, every add_row raises count() by one,
\* also for a row whose unique key a stored row carries; of two rows added
\* with the same key both are kept, in iteration order and with their content,
\* get for the key returns the second one, and the first is not reachable
\* through the index
C29_DuplicateKey ==
    /\ [](\A i \in 1..Len(tlog), j \in 1..Len(tlog) :
             (i < j /\ tlog[i].id = tlog[j].id /\ j = Last(RowsWithId(tlog[j].id))) =>
                 /\ DataTable_count(rows_) = Len(tlog)
                 /\ DataTable_iterate(rows_)[i].row = tlog[i]
                 /\ DataTable_iterate(rows_)[j].row = tlog[j]
                 /\ Table_get_by_id(uidx, tlog[j].id) = rows_[j].addr
                 /\ rows_[i].addr # rows_[j].addr
                 /\ rows_[i].addr \notin UniquePointers)
    /\ [][(AddRowStep /\ RowsWithId(tlog'[Len(tlog')].id) # {}) =>
             /\ DataTable_count(rows_') = DataTable_count(rows_) + 1
             /\ \A i \in 1..Len(rows_) : DataTable_iterate(rows_')[i] = rows_[i]]_vars

\* two rows with the unique key 1 and different content are stored, and get
\* for 1 has returned the second
C29_Witness ==
    /\ Len(tlog) = 2
    /\ tlog[1].id = 1 /\ tlog[2].id = 1 /\ tlog[1].grp # tlog[2].grp
    /\ tres.op = "get_by_id"
    /\ tres.val = <<1, rows_[2].addr>>

\* C30: an insert under a key K, on a UniqueIndex or a GroupIndex, leaves the
\* results of get and contains for every other key as they were (and those of
\* the other GroupIndex object for every key); a get or contains leaves the
\* index unchanged, so a key that was absent is absent afterwards
C30_Frame ==
    /\ [][Len(ulog') = Len(ulog) + 1 =>
             \A key \in Keys \ {ulog'[Len(ulog')][1]} :
                 /\ UniqueIndex_get(index_', key) = UniqueIndex_get(index_, key)
                 /\ UniqueIndex_contains(index_', key) = UniqueIndex_contains(index_, key)]_vars
    /\ [][\A g \in Objects :
             Len(glog'[g]) = Len(glog[g]) + 1 =>
                 \A h \in Objects, key \in GroupKeys :
                     (h # g \/ key # glog'[g][Len(glog'[g])][1]) =>
                         /\ GroupIndex_get(gindex_'[h], empty_', key)
                                = GroupIndex_get(gindex_[h], empty_, key)
                         /\ GroupIndex_contains(gindex_'[h], key)
                                = GroupIndex_contains(gindex_[h], key)]_vars
    /\ [][ures' # ures =>
             /\ index_' = index_
             /\ ~UniqueIndex_contains(index_, ures'.key) =>
                    ~UniqueIndex_contains(index_', ures'.key)]_vars
    /\ [][(glog' = glog /\ gres'.op \in {"get", "contains"}) =>
             /\ gindex_' = gindex_ /\ empty_' = empty_
             /\ ~GroupIndex_contains(gindex_[gres'.obj], gres'.key) =>
                    ~GroupIndex_contains(gindex_'[gres'.obj], gres'.key)]_vars

\* a UniqueIndex holds rows under two keys, inserted one after the other
C30_Witness ==
    /\ Len(ulog) = 2
    /\ ulog[1][1] # ulog[2][1]
    /\ UniqueIndex_get(index_, ulog[1][1]) = ulog[1][2]
    /\ UniqueIndex_get(index_, ulog[2][1]) = ulog[2][2]
    /\ ulog[1][2] # nullptr

\* a GroupIndex holds rows under two keys, and get for the first key inserted
\* has returned its row after the insert under the second
C30_GroupWitness ==
    /\ Len(glog[1]) = 2
    /\ glog[1][1][1] # glog[1][2][1]
    /\ gres.op = "get" /\ gres.obj = 1 /\ gres.key = glog[1][1][1]
    /\ gres.val = <<glog[1][1][2]>>

====
